---- MODULE Spec2Model ----
(***************************************************************************)
(* prisma-ezfilter: the query builder (src/builders/queryBuilder.ts) and   *)
(* the query validator (validateQuery and its helpers).                    *)
(*                                                                         *)
(* Both are pure functions of a FilteringQuery and an optional             *)
(* QuerySpecification.  The state machine draws a request and a            *)
(* specification in Init and has one action per exported function.         *)
(*                                                                         *)
(* JavaScript strings are sequences of one-character strings, so that      *)
(* split('.'), includes('.'), the date regular expression, Date parsing    *)
(* and the template strings of the diagnostics are computed, not assumed.  *)
(* JavaScript values are tagged records; every tag has its own payload     *)
(* field, so values of different types compare unequal.                    *)
(***************************************************************************)
EXTENDS Integers, Sequences, FiniteSets, TLC

VARIABLES filter, specification, query, result

vars == <<filter, specification, query, result>>

-----------------------------------------------------------------------------
(* JavaScript values *)

Undefined == [t |-> "undefined"]

Null == [t |-> "null"]

Num(n) == [t |-> "number", n |-> n]

Str(s) == [t |-> "string", s |-> s]

Arr(items) == [t |-> "array", items |-> items]

\* an object literal; props maps each own key (a string) to its value
Obj(props) == [t |-> "object", props |-> props]

\* a Record<string, ...> given by its entries in Object.entries order
Rec(entries) == [t |-> "record", entries |-> entries]

EmptyObj == Obj([k \in {} |-> Undefined])

\* { [k]: v }
Obj1(k, v) == Obj([x \in {k} |-> v])

\* { k1: v1, k2: v2 } with k1 # k2
Obj2(k1, v1, k2, v2) == Obj([x \in {k1, k2} |-> IF x = k1 THEN v1 ELSE v2])

\* ToBoolean
Truthy(v) ==
    CASE v.t = "undefined" -> FALSE
      [] v.t = "null" -> FALSE
      [] v.t = "number" -> v.n # 0
      [] v.t = "string" -> v.s # <<>>
      [] OTHER -> TRUE

\* value === null || value === undefined
IsNullish(v) == v.t = "null" \/ v.t = "undefined"

\* Array.isArray
IsArray(v) == v.t = "array"

-----------------------------------------------------------------------------
(* String primitives *)

Dot == "."

\* String.prototype.includes('.')
IncludesDot(s) == \E i \in 1..Len(s) : s[i] = Dot

RECURSIVE SplitFrom(_, _, _, _)
SplitFrom(s, i, cur, acc) ==
    IF i > Len(s) THEN Append(acc, cur)
    ELSE IF s[i] = Dot THEN SplitFrom(s, i + 1, <<>>, Append(acc, cur))
    ELSE SplitFrom(s, i + 1, Append(cur, s[i]), acc)

\* String.prototype.split('.')
Split(s) == SplitFrom(s, 1, <<>>, <<>>)

\* Array.prototype.includes on an array of strings
ArrIncludes(arr, s) == \E i \in 1..Len(arr.items) : arr.items[i] = Str(s)

-----------------------------------------------------------------------------
(* Property names and string constants of queryBuilder.ts *)

KeyOR == <<"O", "R">>

KeyContains == <<"c", "o", "n", "t", "a", "i", "n", "s">>

KeyMode == <<"m", "o", "d", "e">>

KeyGte == <<"g", "t", "e">>

KeyLte == <<"l", "t", "e">>

Asc == Str(<<"a", "s", "c">>)

Desc == Str(<<"d", "e", "s", "c">>)

Insensitive == Str(<<"i", "n", "s", "e", "n", "s", "i", "t", "i", "v", "e">>)

Sensitive == Str(<<"s", "e", "n", "s", "i", "t", "i", "v", "e">>)

DefaultTake == 10

DefaultSkip == 0

-----------------------------------------------------------------------------
(* queryBuilder.ts *)

\* for (let i = parts.length - 1; i >= 0; i--) current = { [parts[i]]: current }
\* with parts 1-based here: i runs from Len(parts) down to 1
\* the loop stopping at i > 0: the outermost relation is never wrapped
RECURSIVE WrapPartsStopEarly(_, _, _)
WrapPartsStopEarly(parts, i, current) ==
    IF i < 2 THEN current
    ELSE WrapPartsStopEarly(parts, i - 1, Obj1(parts[i], current))

RECURSIVE WrapParts(_, _, _)
WrapParts(parts, i, current) ==
    IF i < 1 THEN current
    ELSE WrapParts(parts, i - 1, Obj1(parts[i], current))

\* parts.pop() leaves all but the last element in parts
Popped(parts) == SubSeq(parts, 1, Len(parts) - 1)

LastPart(parts) == parts[Len(parts)]

buildNestedWhere(key, value) ==
    IF ~IncludesDot(key) THEN Obj1(key, value)
    ELSE LET parts == Split(key)
         IN  WrapParts(Popped(parts), Len(parts) - 1, Obj1(LastPart(parts), value))

buildNestedOrderBy(orderKey, orderRule) ==
    IF ~IncludesDot(orderKey) THEN Obj1(orderKey, orderRule)
    ELSE LET parts == Split(orderKey)
         IN  WrapParts(Popped(parts), Len(parts) - 1, Obj1(LastPart(parts), orderRule))

buildNestedSearch(key, value, searchMode) ==
    IF ~IncludesDot(key)
    THEN Obj1(key, Obj2(KeyContains, value, KeyMode, searchMode))
    ELSE LET parts == Split(key)
         IN  WrapParts(Popped(parts), Len(parts) - 1,
                       Obj1(LastPart(parts), Obj2(KeyContains, value, KeyMode, searchMode)))

buildNestedRange(range) ==
    LET parts == Split(range.key)
    IN  WrapParts(Popped(parts), Len(parts) - 1,
                  Obj1(LastPart(parts), Obj2(KeyGte, range.start, KeyLte, range.end)))

\* value.map(f) for a one-argument f
RECURSIVE MapNested(_, _, _)
MapNested(key, items, i) ==
    IF i > Len(items) THEN <<>>
    ELSE <<buildNestedWhere(key, items[i])>> \o MapNested(key, items, i + 1)

RECURSIVE MapPlain(_, _, _)
MapPlain(key, items, i) ==
    IF i > Len(items) THEN <<>>
    ELSE <<Obj1(key, items[i])>> \o MapPlain(key, items, i + 1)

\* the null test written as a falsiness test: if (!value) continue
WhereEntrySkipFalsy(key, value) ==
    IF ~Truthy(value) THEN <<>>
    ELSE IF IncludesDot(key)
    THEN IF IsArray(value)
         THEN <<Obj1(KeyOR, Arr(MapNested(key, value.items, 1)))>>
         ELSE <<buildNestedWhere(key, value)>>
    ELSE IF IsArray(value)
         THEN <<Obj1(KeyOR, Arr(MapPlain(key, value.items, 1)))>>
         ELSE <<Obj1(key, value)>>

\* one iteration of the loop of buildWhereQuery: the conditions pushed for one entry
WhereEntry(key, value) ==
    IF IsNullish(value) THEN <<>>
    ELSE IF IncludesDot(key)
    THEN IF IsArray(value)
         THEN <<Obj1(KeyOR, Arr(MapNested(key, value.items, 1)))>>
         ELSE <<buildNestedWhere(key, value)>>
    ELSE IF IsArray(value)
         THEN <<Obj1(KeyOR, Arr(MapPlain(key, value.items, 1)))>>
         ELSE <<Obj1(key, value)>>

RECURSIVE WhereLoop(_, _)
WhereLoop(entries, i) ==
    IF i > Len(entries) THEN <<>>
    ELSE WhereEntry(entries[i].key, entries[i].value) \o WhereLoop(entries, i + 1)

buildWhereQuery(filters) == WhereLoop(filters.entries, 1)

\* the mode fixed to 'insensitive', the specification ignored
SearchModeInsensitive(spec) == Insensitive

\* specification?.defaultSearchMode || 'insensitive'
SearchMode(spec) ==
    IF spec.t = "undefined" THEN Insensitive
    ELSE IF Truthy(spec.defaultSearchMode) THEN spec.defaultSearchMode
    ELSE Insensitive

\* Object.values(searchFilters).length > 1
IsMultiKey(searchFilters) == Len(searchFilters.entries) > 1

\* the searchQuery built for one entry, or nothing for a null/undefined value
SearchEntry(key, value, spec) ==
    IF IsNullish(value) THEN <<>>
    ELSE IF IncludesDot(key)
    THEN <<buildNestedSearch(key, value, SearchMode(spec))>>
    ELSE <<Obj1(key, Obj2(KeyContains, value, KeyMode, SearchMode(spec)))>>

RECURSIVE SearchLoop(_, _, _)
SearchLoop(entries, i, spec) ==
    IF i > Len(entries) THEN <<>>
    ELSE SearchEntry(entries[i].key, entries[i].value, spec) \o SearchLoop(entries, i + 1, spec)

buildSearchQuery(searchFilters, spec) ==
    LET pushed == SearchLoop(searchFilters.entries, 1, spec)
    IN  IF IsMultiKey(searchFilters)
        THEN IF Len(pushed) > 0 THEN <<Obj1(KeyOR, Arr(pushed))>> ELSE <<>>
        ELSE pushed

RangeEntry(range) ==
    IF IncludesDot(range.key) THEN buildNestedRange(range)
    ELSE Obj1(range.key, Obj2(KeyGte, range.start, KeyLte, range.end))

RECURSIVE RangeLoop(_, _)
RangeLoop(ranges, i) ==
    IF i > Len(ranges) THEN <<>>
    ELSE <<RangeEntry(ranges[i])>> \o RangeLoop(ranges, i + 1)

buildRangedFilter(rangedFilters) == RangeLoop(rangedFilters.items, 1)

\* the offset computed from the page number itself: page * rows
buildPaginationPageOffset(f) ==
    IF Truthy(f.page)
    THEN IF Truthy(f.rows)
         THEN [take |-> f.rows, skip |-> Num(f.page.n * f.rows.n)]
         ELSE [take |-> Num(DefaultTake), skip |-> Num(DefaultTake * f.page.n)]
    ELSE [take |-> Num(DefaultTake), skip |-> Num(DefaultSkip)]

buildPagination(f) ==
    IF Truthy(f.page)
    THEN IF Truthy(f.rows)
         THEN [take |-> f.rows, skip |-> Num((f.page.n - 1) * f.rows.n)]
         ELSE [take |-> Num(DefaultTake), skip |-> Num(DefaultTake * (f.page.n - 1))]
    ELSE [take |-> Num(DefaultTake), skip |-> Num(DefaultSkip)]

\* filter.orderRule ?? 'asc'
\* the direction fixed to 'asc', orderRule ignored
OrderRuleAlwaysAsc(f) == Asc

OrderRuleOf(f) == IF IsNullish(f.orderRule) THEN Asc ELSE f.orderRule

\* the stages in another order: range conditions appended before the search conditions
buildFilterQueryRangesFirst(f, spec) ==
    LET and1 == IF Truthy(f.filters) THEN buildWhereQuery(f.filters) ELSE <<>>
        and2 == IF Truthy(f.rangedFilters)
                THEN and1 \o buildRangedFilter(f.rangedFilters) ELSE and1
        and3 == IF Truthy(f.searchFilters)
                THEN and2 \o buildSearchQuery(f.searchFilters, spec) ELSE and2
        orderBy == IF Truthy(f.orderKey)
                   THEN buildNestedOrderBy(f.orderKey.s, OrderRuleOf(f)) ELSE EmptyObj
        p == buildPagination(f)
    IN  [where |-> [AND |-> and3], orderBy |-> orderBy, take |-> p.take, skip |-> p.skip]

\* the builder applying the policy itself: take capped at specification.maxPageSize
buildFilterQueryCapped(f, spec) ==
    LET and1 == IF Truthy(f.filters) THEN buildWhereQuery(f.filters) ELSE <<>>
        and2 == IF Truthy(f.searchFilters)
                THEN and1 \o buildSearchQuery(f.searchFilters, spec) ELSE and1
        and3 == IF Truthy(f.rangedFilters)
                THEN and2 \o buildRangedFilter(f.rangedFilters) ELSE and2
        orderBy == IF Truthy(f.orderKey)
                   THEN buildNestedOrderBy(f.orderKey.s, OrderRuleOf(f)) ELSE EmptyObj
        p == buildPagination(f)
        take == IF spec.t # "undefined" /\ Truthy(spec.maxPageSize)
                   /\ p.take.n > spec.maxPageSize.n
                THEN spec.maxPageSize ELSE p.take
    IN  [where |-> [AND |-> and3], orderBy |-> orderBy, take |-> take, skip |-> p.skip]

buildFilterQuery(f, spec) ==
    LET and1 == IF Truthy(f.filters) THEN buildWhereQuery(f.filters) ELSE <<>>
        and2 == IF Truthy(f.searchFilters)
                THEN and1 \o buildSearchQuery(f.searchFilters, spec) ELSE and1
        and3 == IF Truthy(f.rangedFilters)
                THEN and2 \o buildRangedFilter(f.rangedFilters) ELSE and2
        orderBy == IF Truthy(f.orderKey)
                   THEN buildNestedOrderBy(f.orderKey.s, OrderRuleOf(f)) ELSE EmptyObj
        p == buildPagination(f)
    IN  [where |-> [AND |-> and3], orderBy |-> orderBy, take |-> p.take, skip |-> p.skip]

-----------------------------------------------------------------------------
(* Template strings of the validator *)

Quote == <<"'">>

FieldPrefix == <<"F", "i", "e", "l", "d", " ", "'">>

SearchFieldPrefix == <<"S", "e", "a", "r", "c", "h", " ", "f", "i", "e", "l", "d", " ", "'">>

RangeFieldPrefix == <<"R", "a", "n", "g", "e", " ", "f", "i", "e", "l", "d", " ", "'">>

OrderFieldPrefix == <<"O", "r", "d", "e", "r", " ", "f", "i", "e", "l", "d", " ", "'">>

ForbiddenSuffix == <<"'", " ", "i", "s", " ", "f", "o", "r", "b", "i", "d", "d", "e", "n">>

NotInListSuffix == <<"'", " ", "i", "s", " ", "n", "o", "t", " ", "i", "n", " ", "a", "l", "l", "o", "w", "e", "d", " ", "f", "i", "e", "l", "d", "s", " ", "l", "i", "s", "t">>

RelationPrefix == <<"R", "e", "l", "a", "t", "i", "o", "n", " ", "'">>

InFieldInfix == <<"'", " ", "i", "n", " ", "f", "i", "e", "l", "d", " ", "'">>

NotAllowedSuffix == <<"'", " ", "i", "s", " ", "n", "o", "t", " ", "a", "l", "l", "o", "w", "e", "d">>

PageMessage == <<"P", "a", "g", "e", " ", "n", "u", "m", "b", "e", "r", " ", "m", "u", "s", "t", " ", "b", "e", " ", "g", "r", "e", "a", "t", "e", "r", " ", "t", "h", "a", "n", " ", "0">>

RowsMessage == <<"R", "o", "w", "s", " ", "p", "e", "r", " ", "p", "a", "g", "e", " ", "m", "u", "s", "t", " ", "b", "e", " ", "g", "r", "e", "a", "t", "e", "r", " ", "t", "h", "a", "n", " ", "0">>

ExceedPrefix == <<"R", "o", "w", "s", " ", "p", "e", "r", " ", "p", "a", "g", "e", " ", "c", "a", "n", "n", "o", "t", " ", "e", "x", "c", "e", "e", "d", " ">>

RangeStartPrefix == <<"R", "a", "n", "g", "e", " ", "s", "t", "a", "r", "t", " ", "d", "a", "t", "e", " ", "'">>

AfterEndInfix == <<"'", " ", "i", "s", " ", "a", "f", "t", "e", "r", " ", "e", "n", "d", " ", "d", "a", "t", "e", " ", "'">>

Digits == <<"0", "1", "2", "3", "4", "5", "6", "7", "8", "9">>

IsDigit(c) == \E d \in 1..10 : Digits[d] = c

DigitVal(c) == (CHOOSE d \in 1..10 : Digits[d] = c) - 1

RECURSIVE NatToString(_)
NatToString(n) ==
    IF n < 10 THEN <<Digits[n + 1]>>
    ELSE NatToString(n \div 10) \o <<Digits[(n % 10) + 1]>>

\* `${n}` for an integer n
NumToString(n) == IF n < 0 THEN <<"-">> \o NatToString(0 - n) ELSE NatToString(n)

-----------------------------------------------------------------------------
(* Dates: isValidDate and new Date(string) on the strings it accepts *)

AllDigits(s, from, to) == \A i \in from..to : IsDigit(s[i])

\* /^\d{4}-\d{2}-\d{2}T\d{2}:\d{2}:\d{2}(?:\.\d+)?Z$/
DateRegexTest(s) ==
    /\ Len(s) >= 20
    /\ AllDigits(s, 1, 4) /\ s[5] = "-"
    /\ AllDigits(s, 6, 7) /\ s[8] = "-"
    /\ AllDigits(s, 9, 10) /\ s[11] = "T"
    /\ AllDigits(s, 12, 13) /\ s[14] = ":"
    /\ AllDigits(s, 15, 16) /\ s[17] = ":"
    /\ AllDigits(s, 18, 19)
    /\ \/ Len(s) = 20 /\ s[20] = "Z"
       \/ /\ Len(s) >= 22
          /\ s[20] = Dot
          /\ AllDigits(s, 21, Len(s) - 1)
          /\ s[Len(s)] = "Z"

isValidDate(dateString) ==
    IF dateString.t # "string" THEN FALSE ELSE DateRegexTest(dateString.s)

Num2(s, i) == 10 * DigitVal(s[i]) + DigitVal(s[i + 1])

Num4(s, i) == 100 * Num2(s, i) + Num2(s, i + 2)

\* the fraction of a second in milliseconds: only the first three digits count
FractionMs(s) ==
    IF Len(s) = 20 THEN 0
    ELSE LET n == Len(s) - 21
             d(k) == IF k <= n THEN DigitVal(s[20 + k]) ELSE 0
         IN  100 * d(1) + 10 * d(2) + d(3)

\* days from 1970-01-01 to the given civil date (proleptic Gregorian calendar)
DaysFromCivil(y, m, d) ==
    LET yy == IF m <= 2 THEN y - 1 ELSE y
        era == yy \div 400
        yoe == yy - era * 400
        mp == (m + 9) % 12
        doy == (153 * mp + 2) \div 5 + d - 1
        doe == yoe * 365 + yoe \div 4 - yoe \div 100 + doy
    IN  era * 146097 + doe - 719468

\* new Date(s) for a string the regular expression accepts: its time value as
\* <<day, millisecond of the day>>, or NaN when a component is out of range
\* (month 1..12, day 1..31, 24:00:00 allowed, as Node's parser does)
DateOf(s) ==
    LET y == Num4(s, 1)
        mo == Num2(s, 6)
        d == Num2(s, 9)
        h == Num2(s, 12)
        mi == Num2(s, 15)
        sec == Num2(s, 18)
        ms == FractionMs(s)
        timeOk == \/ h <= 23 /\ mi <= 59 /\ sec <= 59
                  \/ h = 24 /\ mi = 0 /\ sec = 0 /\ ms = 0
        tod == ((h * 60 + mi) * 60 + sec) * 1000 + ms
        day == DaysFromCivil(y, mo, d)
        MsPerDay == 86400000
    IN  IF mo \in 1..12 /\ d \in 1..31 /\ timeOk
        THEN [nan |-> FALSE, day |-> day + tod \div MsPerDay, ms |-> tod % MsPerDay]
        ELSE [nan |-> TRUE, day |-> 0, ms |-> 0]

\* the comparison written >=
DateGreaterOrEqual(a, b) ==
    /\ ~a.nan /\ ~b.nan
    /\ \/ a.day > b.day
       \/ a.day = b.day /\ a.ms >= b.ms

\* startDate > endDate on Date objects: a comparison of time values, false on NaN
DateGreater(a, b) ==
    /\ ~a.nan /\ ~b.nan
    /\ \/ a.day > b.day
       \/ a.day = b.day /\ a.ms > b.ms

-----------------------------------------------------------------------------
(* The validator *)

NoDiag == [errors |-> <<>>, warnings |-> <<>>]

Errs(e) == [errors |-> e, warnings |-> <<>>]

Warns(w) == [errors |-> <<>>, warnings |-> w]

\* the effect of running a after b on the shared errors and warnings arrays
Then(a, b) == [errors |-> a.errors \o b.errors, warnings |-> a.warnings \o b.warnings]

\* specification.allowedFields && !specification.allowedFields.includes(field)
NotAllowedField(spec, field) ==
    Truthy(spec.allowedFields) /\ ~ArrIncludes(spec.allowedFields, field)

\* specification.forbiddenFields?.includes(field)
ForbiddenIncludes(spec, field) ==
    IF IsNullish(spec.forbiddenFields) THEN FALSE
    ELSE ArrIncludes(spec.forbiddenFields, field)

\* the loop without its break: every relation that is not allowed is reported
RECURSIVE RelationLoopNoBreak(_, _, _, _)
RelationLoopNoBreak(parts, i, field, spec) ==
    IF ~(i < Len(parts)) THEN <<>>
    ELSE IF ~ArrIncludes(spec.allowedRelations, parts[i])
    THEN <<RelationPrefix \o parts[i] \o InFieldInfix \o field \o NotAllowedSuffix>>
         \o RelationLoopNoBreak(parts, i + 1, field, spec)
    ELSE RelationLoopNoBreak(parts, i + 1, field, spec)

\* only the first segment of the path checked
RelationLoopFirstOnly(parts, i, field, spec) ==
    IF ~(i < Len(parts)) THEN <<>>
    ELSE IF ~ArrIncludes(spec.allowedRelations, parts[i])
    THEN <<RelationPrefix \o parts[i] \o InFieldInfix \o field \o NotAllowedSuffix>>
    ELSE <<>>

RECURSIVE RelationLoop(_, _, _, _)
RelationLoop(parts, i, field, spec) ==
    IF ~(i < Len(parts)) THEN <<>>
    ELSE IF ~ArrIncludes(spec.allowedRelations, parts[i])
    THEN <<RelationPrefix \o parts[i] \o InFieldInfix \o field \o NotAllowedSuffix>>
    ELSE RelationLoop(parts, i + 1, field, spec)

validateMultiLevelRelation(field, spec) ==
    IF ~Truthy(spec.allowedRelations) THEN NoDiag
    ELSE Errs(RelationLoop(Split(field), 1, field, spec))

RelationCheck(field, spec) ==
    IF IncludesDot(field) THEN validateMultiLevelRelation(field, spec) ELSE NoDiag

\* forbiddenFields consulted first, whatever allowedFields says
FilterEntryDiagForbiddenFirst(field, value, spec) ==
    IF IsNullish(value) THEN NoDiag
    ELSE Then(IF ForbiddenIncludes(spec, field)
              THEN Errs(<<FieldPrefix \o field \o ForbiddenSuffix>>)
              ELSE IF NotAllowedField(spec, field)
                   THEN Warns(<<FieldPrefix \o field \o NotInListSuffix>>)
                   ELSE NoDiag,
              RelationCheck(field, spec))

FilterEntryDiag(field, value, spec) ==
    IF IsNullish(value) THEN NoDiag
    ELSE Then(IF NotAllowedField(spec, field)
              THEN IF ForbiddenIncludes(spec, field)
                   THEN Errs(<<FieldPrefix \o field \o ForbiddenSuffix>>)
                   ELSE Warns(<<FieldPrefix \o field \o NotInListSuffix>>)
              ELSE NoDiag,
              RelationCheck(field, spec))

RECURSIVE FiltersLoop(_, _, _)
FiltersLoop(entries, i, spec) ==
    IF i > Len(entries) THEN NoDiag
    ELSE Then(FilterEntryDiag(entries[i].key, entries[i].value, spec),
              FiltersLoop(entries, i + 1, spec))

validateFilters(filters, spec) == FiltersLoop(filters.entries, 1, spec)

\* the search check written like the filters check, forbiddenFields included
SearchEntryDiagEscalating(field, value, spec) ==
    IF IsNullish(value) THEN NoDiag
    ELSE Then(IF NotAllowedField(spec, field)
              THEN IF ForbiddenIncludes(spec, field)
                   THEN Errs(<<FieldPrefix \o field \o ForbiddenSuffix>>)
                   ELSE Warns(<<SearchFieldPrefix \o field \o NotInListSuffix>>)
              ELSE NoDiag,
              RelationCheck(field, spec))

SearchEntryDiag(field, value, spec) ==
    IF IsNullish(value) THEN NoDiag
    ELSE Then(IF NotAllowedField(spec, field)
              THEN Warns(<<SearchFieldPrefix \o field \o NotInListSuffix>>)
              ELSE NoDiag,
              RelationCheck(field, spec))

RECURSIVE SearchDiagLoop(_, _, _)
SearchDiagLoop(entries, i, spec) ==
    IF i > Len(entries) THEN NoDiag
    ELSE Then(SearchEntryDiag(entries[i].key, entries[i].value, spec),
              SearchDiagLoop(entries, i + 1, spec))

validateSearchFilters(searchFilters, spec) == SearchDiagLoop(searchFilters.entries, 1, spec)

\* the date check of one range
RangeDateDiag(range) ==
    IF isValidDate(range.start) /\ isValidDate(range.end)
    THEN IF DateGreater(DateOf(range.start.s), DateOf(range.end.s))
         THEN Errs(<<RangeStartPrefix \o range.start.s \o AfterEndInfix
                     \o range.end.s \o Quote>>)
         ELSE NoDiag
    ELSE NoDiag

RangeDiag(range, spec) ==
    Then(IF NotAllowedField(spec, range.key)
         THEN Warns(<<RangeFieldPrefix \o range.key \o NotInListSuffix>>)
         ELSE NoDiag,
         Then(RelationCheck(range.key, spec), RangeDateDiag(range)))

RECURSIVE RangeDiagLoop(_, _, _)
RangeDiagLoop(ranges, i, spec) ==
    IF i > Len(ranges) THEN NoDiag
    ELSE Then(RangeDiag(ranges[i], spec), RangeDiagLoop(ranges, i + 1, spec))

validateRangedFilters(rangedFilters, spec) == RangeDiagLoop(rangedFilters.items, 1, spec)

validateOrderKey(orderKey, spec) ==
    Then(IF NotAllowedField(spec, orderKey)
         THEN Warns(<<OrderFieldPrefix \o orderKey \o NotInListSuffix>>)
         ELSE NoDiag,
         RelationCheck(orderKey, spec))

\* the page left unchecked
PageDiagUnchecked(q) == NoDiag

PageDiag(q) ==
    IF q.page.t # "undefined" /\ q.page.n < 1 THEN Errs(<<PageMessage>>) ELSE NoDiag

RowsDiag(q, spec) ==
    IF q.rows.t # "undefined"
    THEN IF q.rows.n < 1 THEN Errs(<<RowsMessage>>)
         ELSE IF Truthy(spec.maxPageSize) /\ q.rows.n > spec.maxPageSize.n
         THEN Errs(<<ExceedPrefix \o NumToString(spec.maxPageSize.n)>>)
         ELSE NoDiag
    ELSE NoDiag

validatePagination(q, spec) == Then(PageDiag(q), RowsDiag(q, spec))

\* a specification object with every optional member left out
EmptySpecification ==
    [t |-> "specification", allowedFields |-> Undefined, forbiddenFields |-> Undefined,
     allowedRelations |-> Undefined, maxPageSize |-> Undefined,
     defaultSearchMode |-> Undefined]

\* validation that stops at the first part of the request that has an error
validateWithShortCircuit(q, spec) ==
    LET d1 == IF Truthy(q.filters) THEN validateFilters(q.filters, spec) ELSE NoDiag
        d2 == IF Len(d1.errors) = 0 /\ Truthy(q.searchFilters)
              THEN validateSearchFilters(q.searchFilters, spec) ELSE NoDiag
        d12 == Then(d1, d2)
        d3 == IF Len(d12.errors) = 0 /\ Truthy(q.rangedFilters)
              THEN validateRangedFilters(q.rangedFilters, spec) ELSE NoDiag
        d123 == Then(d12, d3)
        d4 == IF Len(d123.errors) = 0 /\ Truthy(q.orderKey)
              THEN validateOrderKey(q.orderKey.s, spec) ELSE NoDiag
        d1234 == Then(d123, d4)
        d5 == IF Len(d1234.errors) = 0 THEN validatePagination(q, spec) ELSE NoDiag
        d == Then(d1234, d5)
    IN  [isValid |-> Len(d.errors) = 0, errors |-> d.errors, warnings |-> d.warnings]

\* isValid computed from the warnings as well as the errors
validateWithWarningsCounted(q, spec) ==
    LET d1 == IF Truthy(q.filters) THEN validateFilters(q.filters, spec) ELSE NoDiag
        d2 == IF Truthy(q.searchFilters)
              THEN validateSearchFilters(q.searchFilters, spec) ELSE NoDiag
        d3 == IF Truthy(q.rangedFilters)
              THEN validateRangedFilters(q.rangedFilters, spec) ELSE NoDiag
        d4 == IF Truthy(q.orderKey) THEN validateOrderKey(q.orderKey.s, spec) ELSE NoDiag
        d5 == validatePagination(q, spec)
        d == Then(d1, Then(d2, Then(d3, Then(d4, d5))))
    IN  [isValid |-> Len(d.errors) = 0 /\ Len(d.warnings) = 0,
         errors |-> d.errors, warnings |-> d.warnings]

\* validateQuery after its early return
validateWith(q, spec) ==
    LET d1 == IF Truthy(q.filters) THEN validateFilters(q.filters, spec) ELSE NoDiag
        d2 == IF Truthy(q.searchFilters)
              THEN validateSearchFilters(q.searchFilters, spec) ELSE NoDiag
        d3 == IF Truthy(q.rangedFilters)
              THEN validateRangedFilters(q.rangedFilters, spec) ELSE NoDiag
        d4 == IF Truthy(q.orderKey) THEN validateOrderKey(q.orderKey.s, spec) ELSE NoDiag
        d5 == validatePagination(q, spec)
        d == Then(d1, Then(d2, Then(d3, Then(d4, d5))))
    IN  [isValid |-> Len(d.errors) = 0, errors |-> d.errors, warnings |-> d.warnings]

\* a missing specification replaced by an empty one instead of returning early
validateQueryDefaultSpec(q, spec) ==
    IF ~Truthy(spec) THEN validateWith(q, EmptySpecification)
    ELSE validateWith(q, spec)

validateQuery(q, spec) ==
    IF ~Truthy(spec) THEN [isValid |-> TRUE, errors |-> <<>>, warnings |-> <<>>]
    ELSE validateWith(q, spec)

-----------------------------------------------------------------------------
(* Inputs *)

MaxPathLen == 5

PathChars == {"a", "b", Dot}

\* every string over PathChars of at most MaxPathLen characters, '' included
Paths == UNION {[1..n -> PathChars] : n \in 0..MaxPathLen}

X == Str(<<"x">>)

Y == Str(<<"y">>)

Entry(k, v) == [key |-> k, value |-> v]

Range(k, s, e) == [key |-> k, start |-> s, end |-> e]

EmptyRequest ==
    [filters |-> Undefined, searchFilters |-> Undefined, rangedFilters |-> Undefined,
     orderKey |-> Undefined, orderRule |-> Undefined, page |-> Undefined, rows |-> Undefined]

\* requests that use one path at all four folding sites
FoldRequests ==
    {[EmptyRequest EXCEPT !.filters = Rec(<<Entry(p, v)>>),
                          !.searchFilters = Rec(<<Entry(p, Y)>>),
                          !.rangedFilters = Arr(<<Range(p, Num(1), Num(2))>>),
                          !.orderKey = Str(p),
                          !.orderRule = r] :
        p \in Paths, v \in {X, Arr(<<X, Num(1)>>)}, r \in {Undefined, Desc}}

InitFold ==
    /\ filter \in FoldRequests
    /\ specification \in {Undefined, [EmptySpecification EXCEPT !.defaultSearchMode = Sensitive]}
    /\ query = Undefined
    /\ result = Undefined


MaxEntries == 2

MaxList == 2

\* field paths used where several entries vary at once
SampleKeys == {<<"a">>, <<"a", Dot, "b">>, <<"b", Dot, "a", Dot, "b">>}

\* list values of at most MaxList elements
Lists == UNION {[1..n -> {X, Num(1)}] : n \in 0..MaxList}

FilterValues == {Null, Undefined, X, Num(0)} \cup {Arr(l) : l \in Lists}

SearchValues == {Null, Undefined, X, Y}

\* the entry lists of a Record with at most MaxEntries own keys, all distinct
EntryLists(keys, values) ==
    {es \in UNION {[1..n -> {Entry(k, v) : k \in keys, v \in values}] : n \in 0..MaxEntries} :
        \A i, j \in 1..Len(es) : i # j => es[i].key # es[j].key}

FilterRequests ==
    {EmptyRequest} \cup
    {[EmptyRequest EXCEPT !.filters = Rec(es)] : es \in EntryLists(SampleKeys, FilterValues)}

InitFilters ==
    /\ filter \in FilterRequests
    /\ specification = Undefined
    /\ query = Undefined
    /\ result = Undefined

SearchRequests ==
    {EmptyRequest} \cup
    {[EmptyRequest EXCEPT !.searchFilters = Rec(es)] : es \in EntryLists(SampleKeys, SearchValues)}

InitSearch ==
    /\ filter \in SearchRequests
    /\ specification \in {Undefined, EmptySpecification,
                          [EmptySpecification EXCEPT !.defaultSearchMode = Sensitive]}
    /\ query = Undefined
    /\ result = Undefined

\* page, rows and maxPageSize range over -MaxNegative..MaxNum
MaxNegative == 1

MaxNum == 3

OptionalNums == {Undefined} \cup {Num(n) : n \in (0 - MaxNegative)..MaxNum}

PageRequests ==
    {[EmptyRequest EXCEPT !.page = pg, !.rows = rw] : pg \in OptionalNums, rw \in OptionalNums}

InitPage ==
    /\ filter \in PageRequests
    /\ specification \in {Undefined} \cup
           {[EmptySpecification EXCEPT !.maxPageSize = m] : m \in OptionalNums}
    /\ query = Undefined
    /\ result = Undefined


FieldKeys == {<<"a">>, <<"a", Dot, "b">>}

\* the allowedFields / forbiddenFields lists that are drawn
FieldLists ==
    {Undefined, Arr(<<>>), Arr(<<Str(<<"a">>)>>), Arr(<<Str(<<"a", Dot, "b">>)>>),
     Arr(<<Str(<<"a">>), Str(<<"a", Dot, "b">>)>>)}

\* requests with at most one field at each of the four sites
FieldRequests ==
    {[EmptyRequest EXCEPT !.filters = fl, !.searchFilters = sf,
                          !.rangedFilters = rf, !.orderKey = ok] :
        fl \in {Undefined} \cup {Rec(<<Entry(f, v)>>) : f \in FieldKeys, v \in {X, Null}},
        sf \in {Undefined} \cup {Rec(<<Entry(f, v)>>) : f \in FieldKeys, v \in {Y, Null}},
        rf \in {Undefined} \cup {Arr(<<Range(f, Num(1), Num(2))>>) : f \in FieldKeys},
        ok \in {Undefined} \cup {Str(f) : f \in FieldKeys}}

InitFields ==
    /\ filter \in FieldRequests
    /\ specification \in
           {[EmptySpecification EXCEPT !.allowedFields = al, !.forbiddenFields = fb,
                                       !.allowedRelations = rl] :
               al \in FieldLists, fb \in FieldLists, rl \in {Undefined, Arr(<<>>)}}
    /\ query = Undefined
    /\ result = Undefined

\* the allowedRelations lists that are drawn; '' is the relation of a path like '.a'
RelationLists ==
    {Undefined, Arr(<<>>), Arr(<<Str(<<"a">>)>>), Arr(<<Str(<<"b">>)>>),
     Arr(<<Str(<<"a">>), Str(<<"b">>)>>), Arr(<<Str(<<>>)>>),
     Arr(<<Str(<<"b">>), Str(<<>>), Str(<<"a">>)>>)}

\* requests that use one path at one site, with a null value, inside OR-groups,
\* or at all four sites
RelationRequests ==
    UNION {{[EmptyRequest EXCEPT !.filters = Rec(<<Entry(p, X)>>)],
            [EmptyRequest EXCEPT !.filters = Rec(<<Entry(p, Null)>>),
                                 !.searchFilters = Rec(<<Entry(p, Undefined)>>)],
            [EmptyRequest EXCEPT !.searchFilters = Rec(<<Entry(p, Y)>>)],
            [EmptyRequest EXCEPT !.rangedFilters = Arr(<<Range(p, Num(1), Num(2))>>)],
            [EmptyRequest EXCEPT !.orderKey = Str(p)],
            [EmptyRequest EXCEPT !.filters = Rec(<<Entry(p, Arr(<<X, Num(1)>>))>>),
                                 !.searchFilters =
                                     Rec(<<Entry(p, Y),
                                           Entry(IF p = <<"a">> THEN <<"b">> ELSE <<"a">>, Y)>>)],
            [EmptyRequest EXCEPT !.filters = Rec(<<Entry(p, X)>>),
                                 !.searchFilters = Rec(<<Entry(p, Y)>>),
                                 !.rangedFilters = Arr(<<Range(p, Num(1), Num(2))>>),
                                 !.orderKey = Str(p)]} : p \in Paths}

InitRelations ==
    /\ filter \in RelationRequests
    /\ specification \in {[EmptySpecification EXCEPT !.allowedRelations = rl] :
                             rl \in RelationLists}
    /\ query = Undefined
    /\ result = Undefined

MaxRanges == 2

D1231 == Str(<<"2", "0", "2", "3", "-", "1", "2", "-", "3", "1", "T", "0", "0", ":", "0", "0", ":", "0", "0", "Z">>)

D0101 == Str(<<"2", "0", "2", "3", "-", "0", "1", "-", "0", "1", "T", "0", "0", ":", "0", "0", ":", "0", "0", "Z">>)

\* 2023-01-01T00:00:00.0009Z
D0101f0009 == Str(<<"2", "0", "2", "3", "-", "0", "1", "-", "0", "1", "T", "0", "0", ":", "0", "0", ":", "0", "0", ".", "0", "0", "0", "9", "Z">>)

\* 2023-01-01T00:00:00.0001Z
D0101f0001 == Str(<<"2", "0", "2", "3", "-", "0", "1", "-", "0", "1", "T", "0", "0", ":", "0", "0", ":", "0", "0", ".", "0", "0", "0", "1", "Z">>)

\* 2024-02-29T12:30:15.5Z
D0229f5 == Str(<<"2", "0", "2", "4", "-", "0", "2", "-", "2", "9", "T", "1", "2", ":", "3", "0", ":", "1", "5", ".", "5", "Z">>)

\* 2024-03-01T00:00:00Z
D0301 == Str(<<"2", "0", "2", "4", "-", "0", "3", "-", "0", "1", "T", "0", "0", ":", "0", "0", ":", "0", "0", "Z">>)

\* 2023-13-01T00:00:00Z: the pattern accepts it, Date does not
DMonth13 == Str(<<"2", "0", "2", "3", "-", "1", "3", "-", "0", "1", "T", "0", "0", ":", "0", "0", ":", "0", "0", "Z">>)

\* 2023-12-31: a date without a time
DNoTime == Str(<<"2", "0", "2", "3", "-", "1", "2", "-", "3", "1">>)

\* 2023-12-31T00:00:00+00:00: an offset instead of Z
DOffset == Str(<<"2", "0", "2", "3", "-", "1", "2", "-", "3", "1", "T", "0", "0", ":", "0", "0", ":", "0", "0", "+", "0", "0", ":", "0", "0">>)

\* the (start, end) pairs that are drawn
BoundPairs ==
    {<<D1231, D0101>>, <<D0101, D1231>>, <<D0101, D0101>>,
     <<Num(100), Num(1)>>, <<Num(1), Num(100)>>, <<D1231, Num(1)>>,
     <<DNoTime, D0101>>, <<DOffset, D0101>>,
     <<D0101f0009, D0101f0001>>, <<D0101f0001, D0101f0009>>, <<D0101f0009, D0101>>,
     <<D0301, D0229f5>>, <<D0229f5, D0301>>, <<D0229f5, D1231>>,
     <<DMonth13, D0101>>, <<D1231, DMonth13>>}

RangeLists ==
    UNION {[1..n -> {Range(<<"a">>, bp[1], bp[2]) : bp \in BoundPairs}] : n \in 0..MaxRanges}

DateRequests == {[EmptyRequest EXCEPT !.rangedFilters = Arr(rs)] : rs \in RangeLists}

InitDates ==
    /\ filter \in DateRequests
    /\ specification \in {Undefined, EmptySpecification}
    /\ query = Undefined
    /\ result = Undefined

\* requests that sort: every path as orderKey or none, every orderRule or none
OrderRequests ==
    {[EmptyRequest EXCEPT !.orderKey = ok, !.orderRule = r] :
        ok \in {Undefined} \cup {Str(p) : p \in Paths}, r \in {Undefined, Asc, Desc}}

InitOrder ==
    /\ filter \in OrderRequests
    /\ specification \in {Undefined, EmptySpecification}
    /\ query = Undefined
    /\ result = Undefined

\* requests with fields at several sites and pagination, under specifications
\* that restrict fields, relations and page size
PolicyRequests ==
    {[EmptyRequest EXCEPT !.filters = fl, !.searchFilters = sf, !.rangedFilters = rf,
                          !.orderKey = ok, !.page = pg, !.rows = rw] :
        fl \in {Undefined} \cup {Rec(es) : es \in EntryLists({<<"a">>, <<"b", Dot, "a">>}, {X})},
        sf \in {Undefined, Rec(<<Entry(<<"a">>, Y)>>), Rec(<<Entry(<<"b", Dot, "a">>, Y)>>)},
        rf \in {Undefined, Arr(<<Range(<<"a">>, Num(1), Num(2))>>),
                Arr(<<Range(<<"b", Dot, "a">>, Num(1), Num(2))>>),
                Arr(<<Range(<<"a">>, Num(1), Num(2)),
                      Range(<<"b", Dot, "a">>, D0301, D0101)>>)},
        ok \in {Undefined, Str(<<"b", Dot, "a">>)},
        pg \in {Undefined, Num(0)},
        rw \in {Undefined, Num(0), Num(MaxNum)}}

InitPolicy ==
    /\ filter \in PolicyRequests
    /\ specification \in
           {[EmptySpecification EXCEPT !.allowedFields = al, !.forbiddenFields = fb,
                                       !.allowedRelations = rl, !.maxPageSize = mx] :
               al \in {Undefined, Arr(<<Str(<<"a">>)>>)},
               fb \in {Undefined, Arr(<<Str(<<"b", Dot, "a">>)>>)},
               rl \in {Undefined, Arr(<<>>)},
               mx \in {Undefined, Num(2)}}
    /\ query = Undefined
    /\ result = Undefined

\* field paths of the requests that combine filters, search filters and ranges
MixedKeys == {<<"a">>, <<"b", Dot, "a">>}

MixedRequests ==
    {[EmptyRequest EXCEPT !.filters = fl, !.searchFilters = sf, !.rangedFilters = rf] :
        fl \in {Undefined} \cup
               {Rec(es) : es \in EntryLists(MixedKeys, {Null, X, Arr(<<X, Num(1)>>)})},
        sf \in {Undefined} \cup {Rec(es) : es \in EntryLists(MixedKeys, {Null, Y})},
        rf \in {Undefined} \cup
               {Arr(rs) : rs \in UNION {[1..n -> {Range(k, Num(1), Num(2)) : k \in MixedKeys}] :
                                           n \in 0..MaxRanges}}}

InitMixed ==
    /\ filter \in MixedRequests
    /\ specification \in {Undefined, [EmptySpecification EXCEPT !.defaultSearchMode = Sensitive]}
    /\ query = Undefined
    /\ result = Undefined

Init ==
    \/ InitFold \/ InitFilters \/ InitSearch \/ InitPage \/ InitFields \/ InitRelations
    \/ InitDates \/ InitMixed \/ InitOrder \/ InitPolicy

-----------------------------------------------------------------------------
(* Actions: one call of each exported function on the drawn inputs *)

BuildFilterQuery ==
    /\ query = Undefined
    /\ query' = buildFilterQuery(filter, specification)
    /\ UNCHANGED <<filter, specification, result>>

ValidateQuery ==
    /\ result = Undefined
    /\ result' = validateQuery(filter, specification)
    /\ UNCHANGED <<filter, specification, query>>

Next == BuildFilterQuery \/ ValidateQuery

SpecFold == InitFold /\ [][Next]_vars

SpecFilters == InitFilters /\ [][Next]_vars

SpecSearch == InitSearch /\ [][Next]_vars

SpecPage == InitPage /\ [][Next]_vars

SpecFields == InitFields /\ [][Next]_vars

SpecRelations == InitRelations /\ [][Next]_vars

SpecDates == InitDates /\ [][Next]_vars

SpecMixed == InitMixed /\ [][Next]_vars

SpecPolicy == InitPolicy /\ [][Next]_vars

SpecOrder == InitOrder /\ [][Next]_vars

Spec == Init /\ [][Next]_vars

-----------------------------------------------------------------------------
(* Shape of folded conditions *)

Built == query # Undefined

Validated == result # Undefined

RECURSIVE Join(_, _)
\* the segments from i on, joined by '.'
Join(segs, i) ==
    IF i = Len(segs) THEN segs[i]
    ELSE segs[i] \o <<Dot>> \o Join(segs, i + 1)

\* segs is the list of the '.'-separated segments of path
IsSegmentsOf(segs, path) ==
    /\ Len(segs) >= 1
    /\ \A i \in 1..Len(segs) : ~IncludesDot(segs[i])
    /\ Join(segs, 1) = path

IsObjWithOnlyKey(v, k) == v.t = "object" /\ DOMAIN v.props = {k}

RECURSIVE IsNest(_, _, _, _)
\* v is {segs[i]: {segs[i+1]: ... {segs[n]: leaf}}}: one single-key mapping per
\* segment, n - i wrappers around the mapping that holds the leaf
IsNest(v, segs, i, leaf) ==
    /\ IsObjWithOnlyKey(v, segs[i])
    /\ IF i = Len(segs) THEN v.props[segs[i]] = leaf
       ELSE IsNest(v.props[segs[i]], segs, i + 1, leaf)

IsFolded(v, path, leaf) ==
    /\ IsSegmentsOf(Split(path), path)
    /\ IsNest(v, Split(path), 1, leaf)

SearchLeaf(value, mode) == Obj2(KeyContains, value, KeyMode, mode)

RangeLeaf(start, end) == Obj2(KeyGte, start, KeyLte, end)

IsOrGroup(v) == IsObjWithOnlyKey(v, KeyOR) /\ v.props[KeyOR].t = "array"

OrMembers(v) == v.props[KeyOR].items

\* C1: Path folding.  For a request that uses the path p (segments s1..sn) as an
\* equality filter, a search filter, a range key and the order key, every
\* condition buildFilterQuery emits for p is {s1: {s2: ... {sn: leaf}}} with
\* n - 1 wrappers: the equality condition (each OR member for a list value)
\* around the value, the search condition around {contains, mode}, the range
\* condition around {gte, lte}, and orderBy around the direction.
C1_PathFolding ==
    Built /\ filter \in FoldRequests =>
        LET p == filter.orderKey.s
            v == filter.filters.entries[1].value
            rng == filter.rangedFilters.items[1]
            and == query.where.AND
        IN  /\ Len(and) = 3
            /\ IF IsArray(v)
               THEN /\ IsOrGroup(and[1])
                    /\ Len(OrMembers(and[1])) = Len(v.items)
                    /\ \A j \in 1..Len(v.items) :
                          IsFolded(OrMembers(and[1])[j], p, v.items[j])
               ELSE IsFolded(and[1], p, v)
            /\ \E m \in {Insensitive, Sensitive} :
                  IsFolded(and[2], p, SearchLeaf(Y, m))
            /\ IsFolded(and[3], p, RangeLeaf(rng.start, rng.end))
            /\ Truthy(filter.orderKey) =>
                  IsFolded(query.orderBy, p, OrderRuleOf(filter))

\* a built request whose path has three segments, two of them wrappers
C1_Witness ==
    /\ Built
    /\ filter \in FoldRequests
    /\ filter.orderKey.s = <<"a", Dot, "b", Dot, "a">>
    /\ IsArray(filter.filters.entries[1].value)

-----------------------------------------------------------------------------
(* Equality filters *)

NonNullEntry(e) == ~IsNullish(e.value)

\* the entries of a record that carry a value, in entry order
Present(rec) == IF rec = Undefined THEN <<>> ELSE SelectSeq(rec.entries, NonNullEntry)

\* v has an own key OR somewhere: itself, or in a nested mapping
RECURSIVE HasOrKey(_)
HasOrKey(v) ==
    /\ v.t = "object"
    /\ \/ KeyOR \in DOMAIN v.props
       \/ \E k \in DOMAIN v.props : HasOrKey(v.props[k])

\* the member of where.AND that the claim prescribes for one filters entry
IsEqualityMember(m, e) ==
    IF IsArray(e.value)
    THEN /\ IsOrGroup(m)
         /\ Len(OrMembers(m)) = Len(e.value.items)
         /\ \A j \in 1..Len(e.value.items) : IsFolded(OrMembers(m)[j], e.key, e.value.items[j])
    ELSE IsFolded(m, e.key, e.value) /\ ~HasOrKey(m)

\* C2: Equality filters.  With no search and no range filters, where.AND has
\* exactly one member per filters entry whose value is not null/undefined, in
\* entry order: {OR: [..]} with one folded member per list element for a list
\* value, the folded condition itself (no OR key) for a scalar value.
C2_EqualityFilters ==
    Built /\ filter.searchFilters = Undefined /\ filter.rangedFilters = Undefined =>
        LET es == Present(filter.filters)
            and == query.where.AND
        IN  /\ Len(and) = Len(es)
            /\ \A i \in 1..Len(es) : IsEqualityMember(and[i], es[i])

\* a built request with a null entry, a scalar 0 and a two-element list on a dotted path
C2_Witness ==
    /\ Built
    /\ filter.filters # Undefined
    /\ \E i, j \in 1..Len(filter.filters.entries) :
          /\ IsNullish(filter.filters.entries[i].value)
          /\ IsArray(filter.filters.entries[j].value)
          /\ Len(filter.filters.entries[j].value.items) = 2
          /\ IncludesDot(filter.filters.entries[j].key)
    /\ Len(query.where.AND) = 1

-----------------------------------------------------------------------------
(* Search filters *)

\* C3: Search filters.  With k the number of search fields whose value is not
\* null/undefined: k > 1 gives exactly one OR-group with k members, k = 1 gives
\* the single condition directly, with no OR wrapper.
C3_SearchGrouping ==
    Built /\ filter.filters = Undefined /\ filter.rangedFilters = Undefined =>
        LET es == Present(filter.searchFilters)
            and == query.where.AND
        IN  /\ Len(es) > 1 =>
                /\ Len(and) = 1
                /\ IsOrGroup(and[1])
                /\ Len(OrMembers(and[1])) = Len(es)
            /\ Len(es) = 1 =>
                /\ Len(and) = 1
                /\ ~IsOrGroup(and[1])
                /\ IsFolded(and[1], es[1].key, SearchLeaf(es[1].value, SearchMode(specification)))

-----------------------------------------------------------------------------
(* Pagination of the builder *)

IsSet(v) == v # Undefined

PositiveOrUnset(v) == IsSet(v) => v.n >= 1

\* C4: Pagination take.  take is rows when rows is set and 10 otherwise,
\* whether or not page is set (stated for the documented values of page and
\* rows, positive integers).
C4_Take ==
    Built /\ PositiveOrUnset(filter.page) /\ PositiveOrUnset(filter.rows) =>
        query.take = (IF IsSet(filter.rows) THEN filter.rows ELSE Num(10))

\* C5: Pagination skip.  skip is (page-1)*rows when page and rows are set,
\* 10*(page-1) when page is set and rows is not, 0 when page is unset.
C5_Skip ==
    Built =>
        query.skip =
            (IF IsSet(filter.page)
             THEN IF IsSet(filter.rows)
                  THEN Num((filter.page.n - 1) * filter.rows.n)
                  ELSE Num(10 * (filter.page.n - 1))
             ELSE Num(0))

\* page or rows given as 0 counts as not given
Given(v) == IsSet(v) /\ v.n # 0

\* C5 (amended): skip is (page-1)*rows when page and rows are both set and
\* nonzero, 10*(page-1) when page is set and nonzero and rows is unset or 0,
\* and 0 when page is unset or 0.
C5_SkipNonzero ==
    Built =>
        query.skip =
            (IF Given(filter.page)
             THEN IF Given(filter.rows)
                  THEN Num((filter.page.n - 1) * filter.rows.n)
                  ELSE Num(10 * (filter.page.n - 1))
             ELSE Num(0))

\* built: page = 2 with rows = 3, skip 3
C5_Witness ==
    /\ Built
    /\ filter.page = Num(2)
    /\ filter.rows = Num(3)
    /\ query.skip = Num(3)

-----------------------------------------------------------------------------
(* The validator *)

HasSpec == specification # Undefined

\* the number of elements of seq equal to x
Count(seq, x) == Cardinality({i \in 1..Len(seq) : seq[i] = x})

\* C6: validateQuery without a specification returns isValid = true, no errors
\* and no warnings, whatever the request.
C6_NoSpecification ==
    Validated /\ ~HasSpec =>
        /\ result.isValid = TRUE
        /\ result.errors = <<>>
        /\ result.warnings = <<>>

\* validated without a specification: a request with rows = 0 and page = 0
C6_Witness ==
    /\ Validated
    /\ ~HasSpec
    /\ filter.page = Num(0)
    /\ filter.rows = Num(0)

ForbiddenMsg(f) == FieldPrefix \o f \o ForbiddenSuffix

NotInListMsg(prefix, f) == prefix \o f \o NotInListSuffix

\* the strings of a configured list, the empty set for a list left out
Listed(list) == IF list = Undefined THEN {} ELSE {list.items[i].s : i \in 1..Len(list.items)}

KeysOf(es) == {es[i].key : i \in 1..Len(es)}

RangeKeys(f) ==
    IF f.rangedFilters = Undefined THEN {}
    ELSE {f.rangedFilters.items[i].key : i \in 1..Len(f.rangedFilters.items)}

BeginsWith(msg, prefix) == Len(msg) >= Len(prefix) /\ SubSeq(msg, 1, Len(prefix)) = prefix

\* C7: Forbidden-field asymmetry.  With allowedFields configured, a field f
\* outside allowedFields and inside forbiddenFields gives the error
\* "Field 'f' is forbidden", once, and no "Field 'f' is not in allowed fields
\* list" warning when filters has it with a non-null value; from
\* searchFilters (non-null value), a range key or orderKey it gives that
\* site's warning and no "is forbidden" error: every "Field '..." error
\* names a field of filters.
C7_ForbiddenAsymmetry ==
    Validated /\ HasSpec /\ specification.allowedFields # Undefined =>
        LET allowed == Listed(specification.allowedFields)
            forbidden == Listed(specification.forbiddenFields)
            inFilters == KeysOf(Present(filter.filters))
            inSearch == KeysOf(Present(filter.searchFilters))
        IN  /\ \A f \in forbidden \ allowed :
                /\ f \in inFilters =>
                      /\ Count(result.errors, ForbiddenMsg(f)) = 1
                      /\ Count(result.warnings, NotInListMsg(FieldPrefix, f)) = 0
                /\ f \notin inFilters => Count(result.errors, ForbiddenMsg(f)) = 0
                /\ f \in inSearch =>
                      Count(result.warnings, NotInListMsg(SearchFieldPrefix, f)) = 1
                /\ f \in RangeKeys(filter) =>
                      Count(result.warnings, NotInListMsg(RangeFieldPrefix, f)) = 1
                /\ Truthy(filter.orderKey) /\ filter.orderKey.s = f =>
                      Count(result.warnings, NotInListMsg(OrderFieldPrefix, f)) = 1
            /\ \A i \in 1..Len(result.errors) :
                  BeginsWith(result.errors[i], FieldPrefix) =>
                      \E f \in inFilters \cap (forbidden \ allowed) :
                          result.errors[i] = ForbiddenMsg(f)

\* validated: one forbidden field in searchFilters, as range key and as orderKey,
\* another one in filters
C7_Witness ==
    /\ Validated
    /\ HasSpec
    /\ specification.allowedFields = Arr(<<>>)
    /\ Listed(specification.forbiddenFields) = FieldKeys
    /\ KeysOf(Present(filter.filters)) = {<<"a">>}
    /\ KeysOf(Present(filter.searchFilters)) = {<<"a", Dot, "b">>}
    /\ RangeKeys(filter) = {<<"a", Dot, "b">>}
    /\ filter.orderKey = Str(<<"a", Dot, "b">>)
    /\ Len(result.errors) = 1

RelationMsg(seg, path) == RelationPrefix \o seg \o InFieldInfix \o path \o NotAllowedSuffix

\* the positions of the non-terminal segments of path that are not allowed
Disallowed(path, allowed) ==
    {i \in 1..(Len(Split(path)) - 1) : Split(path)[i] \notin allowed}

Leftmost(S) == CHOOSE i \in S : \A j \in S : i <= j

\* the number of times the validator takes path from the request: once per site
\* that has it, entries with a null value not counted
Occurrences(f, path) ==
    Cardinality({i \in 1..Len(Present(f.filters)) : Present(f.filters)[i].key = path})
    + Cardinality({i \in 1..Len(Present(f.searchFilters)) :
                      Present(f.searchFilters)[i].key = path})
    + (IF f.rangedFilters = Undefined THEN 0
       ELSE Cardinality({i \in 1..Len(f.rangedFilters.items) :
                            f.rangedFilters.items[i].key = path}))
    + (IF Truthy(f.orderKey) /\ f.orderKey.s = path THEN 1 ELSE 0)

\* the path the request uses (requests of RelationRequests use one path)
PathsUsed(f) ==
    (IF f.filters = Undefined THEN {} ELSE KeysOf(f.filters.entries))
    \cup (IF f.searchFilters = Undefined THEN {} ELSE KeysOf(f.searchFilters.entries))
    \cup RangeKeys(f)
    \cup (IF f.orderKey = Undefined THEN {} ELSE {f.orderKey.s})

\* C8: Relation-path legality.  With allowedRelations configured, every path
\* the validator takes from filters, searchFilters, a range key or orderKey
\* gives, per site, exactly one error, naming the leftmost non-terminal segment
\* that is not in allowedRelations, and no error if every non-terminal segment
\* is allowed; no other segment of the path is named, the terminal one never.
C8_RelationLegality ==
    Validated /\ HasSpec /\ specification.allowedRelations # Undefined =>
        LET allowed == Listed(specification.allowedRelations)
        IN  /\ \A p \in PathsUsed(filter) :
                  /\ IsSegmentsOf(Split(p), p)
                  /\ \A i \in 1..Len(Split(p)) :
                        Count(result.errors, RelationMsg(Split(p)[i], p)) =
                            (IF Disallowed(p, allowed) # {}
                                /\ Split(p)[i] = Split(p)[Leftmost(Disallowed(p, allowed))]
                             THEN Occurrences(filter, p) ELSE 0)
            /\ \A i \in 1..Len(result.errors) :
                  \E p \in PathsUsed(filter) : \E j \in 1..Len(Split(p)) :
                      result.errors[i] = RelationMsg(Split(p)[j], p)

\* validated: 'b.a.b' at all four sites with only 'b' allowed, so that 'a' is
\* reported four times; the terminal 'b' and a later segment are not
C8_Witness ==
    /\ Validated
    /\ HasSpec
    /\ specification.allowedRelations = Arr(<<Str(<<"b">>)>>)
    /\ filter.orderKey = Str(<<"b", Dot, "a", Dot, "b">>)
    /\ filter.filters # Undefined
    /\ Len(result.errors) = 4

\* the errors of validatePagination the claim prescribes
PageError == IsSet(filter.page) /\ filter.page.n < 1

RowsError == IsSet(filter.rows) /\ filter.rows.n < 1

ExceedMsg(n) == ExceedPrefix \o NumToString(n)

\* C9: Pagination bounds.  Under a specification there is the page error iff
\* page is present and < 1, the rows error iff rows is present and < 1,
\* an error for every rows above a maxPageSize that is set, and no other
\* pagination error.
C9_PaginationBounds ==
    Validated /\ HasSpec /\ filter \in PageRequests =>
        LET max == specification.maxPageSize
            tooMany == IsSet(max) /\ IsSet(filter.rows) /\ filter.rows.n > max.n
        IN  /\ Count(result.errors, PageMessage) = (IF PageError THEN 1 ELSE 0)
            /\ Count(result.errors, RowsMessage) = (IF RowsError THEN 1 ELSE 0)
            /\ tooMany => Len(result.errors) > (IF PageError THEN 1 ELSE 0)
            /\ Len(result.errors) =
                  (IF PageError THEN 1 ELSE 0)
                  + (IF RowsError THEN 1 ELSE IF tooMany THEN 1 ELSE 0)
            /\ ~RowsError /\ tooMany => Count(result.errors, ExceedMsg(max.n)) = 1

-----------------------------------------------------------------------------
(* Range date ordering *)

\* the drawn bounds that are strings of the form YYYY-MM-DDTHH:MM:SS[.fraction]Z
PatternStrings == {D1231, D0101, D0101f0009, D0101f0001, D0229f5, D0301, DMonth13}

\* the instant each drawn timestamp denotes, read off its text:
\* <<year, month, day, hour, minute, second, microsecond>>
InstantOf(v) ==
    CASE v = D1231 -> <<2023, 12, 31, 0, 0, 0, 0>>
      [] v = D0101 -> <<2023, 1, 1, 0, 0, 0, 0>>
      [] v = D0101f0009 -> <<2023, 1, 1, 0, 0, 0, 900>>
      [] v = D0101f0001 -> <<2023, 1, 1, 0, 0, 0, 100>>
      [] v = D0229f5 -> <<2024, 2, 29, 12, 30, 15, 500000>>
      [] v = D0301 -> <<2024, 3, 1, 0, 0, 0, 0>>

\* DMonth13 matches the pattern and denotes no instant
IsInstant(v) == v \in PatternStrings \ {DMonth13}

LexGreater(a, b) ==
    \E i \in 1..Len(a) : a[i] > b[i] /\ \A j \in 1..(i - 1) : a[j] = b[j]

\* start is chronologically after end
After(start, end) ==
    IsInstant(start) /\ IsInstant(end) /\ LexGreater(InstantOf(start), InstantOf(end))

\* the instant with its fraction cut to whole milliseconds
ToMs(inst) == [inst EXCEPT ![7] = inst[7] \div 1000]

\* start is after end at the millisecond resolution of a Date
AfterMs(start, end) ==
    IsInstant(start) /\ IsInstant(end)
    /\ LexGreater(ToMs(InstantOf(start)), ToMs(InstantOf(end)))

StartAfterEndMsg(r) == RangeStartPrefix \o r.start.s \o AfterEndInfix \o r.end.s \o Quote

RangesOf(f) == IF f.rangedFilters = Undefined THEN <<>> ELSE f.rangedFilters.items

\* C10: Range date ordering.  A ranged filter gets the start-after-end error iff
\* start and end are both strings of the ISO-8601 UTC pattern and start is
\* chronologically after end; any other range (numbers, other strings) gets
\* no error and no warning.
C10_DateOrdering ==
    Validated /\ HasSpec /\ filter \in DateRequests =>
        LET rs == RangesOf(filter)
            late == {i \in 1..Len(rs) : rs[i].start \in PatternStrings
                                          /\ rs[i].end \in PatternStrings
                                          /\ After(rs[i].start, rs[i].end)}
        IN  /\ Len(result.errors) = Cardinality(late)
            /\ \A i \in late : StartAfterEndMsg(rs[i]) \in {result.errors[k] : k \in 1..Len(result.errors)}
            /\ result.warnings = <<>>

\* C10 (amended): a ranged filter gets the start-after-end error iff start and
\* end are both strings of the ISO-8601 UTC pattern, both denote a date, and
\* start is after end once both are cut to whole milliseconds (digits of the
\* fraction after the third do not count); any other range gets no error and
\* no warning.
C10_DateOrderingMs ==
    Validated /\ HasSpec /\ filter \in DateRequests =>
        LET rs == RangesOf(filter)
            late == {i \in 1..Len(rs) : rs[i].start \in PatternStrings
                                          /\ rs[i].end \in PatternStrings
                                          /\ AfterMs(rs[i].start, rs[i].end)}
        IN  /\ Len(result.errors) = Cardinality(late)
            /\ \A i \in late : StartAfterEndMsg(rs[i]) \in {result.errors[k] : k \in 1..Len(result.errors)}
            /\ result.warnings = <<>>

\* validated: 2024-03-01 before 2024-02-29T12:30:15.5Z is reported, 100 before 1 is not
C10_Witness ==
    /\ Validated
    /\ HasSpec
    /\ filter \in DateRequests
    /\ RangesOf(filter) = <<Range(<<"a">>, D0301, D0229f5), Range(<<"a">>, Num(100), Num(1))>>
    /\ Len(result.errors) = 1

-----------------------------------------------------------------------------
(* Validity *)

\* C11: isValid is true iff the errors list is empty, for every request and
\* specification (none included); warnings do not enter into it.
C11_ValidIffNoErrors ==
    Validated => (result.isValid = TRUE <=> Len(result.errors) = 0)

\* validated under a specification: warnings and no error, and the result is valid
C11_Witness ==
    /\ Validated
    /\ HasSpec
    /\ Len(result.warnings) > 0
    /\ Len(result.errors) = 0
    /\ result.isValid = TRUE

-----------------------------------------------------------------------------
(* Builder and validator are decoupled *)

\* the specification with its policy members (allowedFields, forbiddenFields,
\* allowedRelations, maxPageSize) left out
WithoutPolicy(spec) ==
    IF spec = Undefined THEN Undefined
    ELSE [EmptySpecification EXCEPT !.defaultSearchMode = spec.defaultSearchMode]

\* q is a {where: {AND: [...]}, orderBy, take, skip} result
IsQueryOptions(q) ==
    /\ DOMAIN q = {"where", "orderBy", "take", "skip"}
    /\ DOMAIN q.where = {"AND"}
    /\ \A i \in 1..Len(q.where.AND) : q.where.AND[i].t = "object"
    /\ q.orderBy.t = "object"
    /\ q.take.t = "number"
    /\ q.skip.t = "number"

\* C12: buildFilterQuery returns a {where: {AND}, orderBy, take, skip} result for
\* every request, those the validator rejects included, and the result is the
\* one it returns when allowedFields, forbiddenFields, allowedRelations and
\* maxPageSize are left out of the specification.
C12_BuilderDecoupled ==
    Built =>
        /\ IsQueryOptions(query)
        /\ query = buildFilterQuery(filter, WithoutPolicy(specification))

\* built and validated: a request the validator rejects for a forbidden field
\* and a relation that is not allowed
C12_Witness ==
    /\ Built
    /\ Validated
    /\ HasSpec
    /\ specification.allowedFields = Arr(<<>>)
    /\ specification.allowedRelations = Arr(<<>>)
    /\ Listed(specification.forbiddenFields) = FieldKeys
    /\ KeysOf(Present(filter.filters)) = {<<"a", Dot, "b">>}
    /\ result.isValid = FALSE
    /\ Len(result.errors) >= 2
    /\ Len(query.where.AND) >= 1

-----------------------------------------------------------------------------
(* Stage order of where.AND *)

IsSearchLeafFold(m, e) ==
    \E mode \in {Insensitive, Sensitive} : IsFolded(m, e.key, SearchLeaf(e.value, mode))

\* m is the search stage's member for the search entries ss that carry a
\* value: their conditions in one OR-group, in entry order, or the condition of
\* the only one
IsSearchMember(m, ss) ==
    \/ Len(ss) = 1 /\ IsSearchLeafFold(m, ss[1])
    \/ /\ IsOrGroup(m)
       /\ Len(OrMembers(m)) = Len(ss)
       /\ \A i \in 1..Len(ss) : IsSearchLeafFold(OrMembers(m)[i], ss[i])

\* C13: Stage order.  where.AND is the equality conditions in filters entry
\* order, then the search conditions, then one {gte: start, lte: end} condition
\* per rangedFilters entry in sequence order, each range condition a direct
\* member of AND; absent filters, searchFilters and rangedFilters add nothing.
C13_StageOrder ==
    Built =>
        LET es == Present(filter.filters)
            ss == Present(filter.searchFilters)
            rs == RangesOf(filter)
            and == query.where.AND
            k == Len(es)
            mid == IF Len(ss) = 0 THEN 0 ELSE 1
        IN  /\ Len(and) = k + mid + Len(rs)
            /\ \A i \in 1..k : IsEqualityMember(and[i], es[i])
            /\ mid = 1 => IsSearchMember(and[k + 1], ss)
            /\ \A j \in 1..Len(rs) :
                  IsFolded(and[k + mid + j], rs[j].key, RangeLeaf(rs[j].start, rs[j].end))

\* built: two equality entries, two search entries and two ranges, five AND members
C13_Witness ==
    /\ Built
    /\ Len(Present(filter.filters)) = 2
    /\ Len(Present(filter.searchFilters)) = 2
    /\ Len(RangesOf(filter)) = 2
    /\ RangesOf(filter)[1].key # RangesOf(filter)[2].key
    /\ Len(query.where.AND) = 5

-----------------------------------------------------------------------------
(* Search mode *)

\* the mode the specification resolves to
ResolvedMode ==
    IF HasSpec /\ specification.defaultSearchMode # Undefined
    THEN specification.defaultSearchMode
    ELSE Insensitive

\* the folded search conditions of the output, in order: the members of the
\* OR-group, or the one direct member
SearchConditions(member) == IF IsOrGroup(member) THEN OrMembers(member) ELSE <<member>>

\* C14: Search mode.  Every search leaf is {contains: value, mode: m}, m being
\* specification.defaultSearchMode when a specification sets it and
\* 'insensitive' otherwise; the same m for every search field, dotted or not.
C14_SearchMode ==
    Built =>
        LET ss == Present(filter.searchFilters)
            k == Len(Present(filter.filters))
        IN  Len(ss) > 0 =>
                LET conds == SearchConditions(query.where.AND[k + 1])
                IN  /\ Len(conds) = Len(ss)
                    /\ \A i \in 1..Len(ss) :
                          IsFolded(conds[i], ss[i].key, SearchLeaf(ss[i].value, ResolvedMode))

\* built under defaultSearchMode 'default': a dotted and an undotted search field
C14_Witness ==
    /\ Built
    /\ HasSpec
    /\ specification.defaultSearchMode = Sensitive
    /\ Len(Present(filter.searchFilters)) = 2
    /\ \E i, j \in 1..2 :
          /\ Len(Present(filter.searchFilters)[i].key) = 1
          /\ Len(Present(filter.searchFilters)[j].key) > 1
    /\ IsOrGroup(query.where.AND[1])
    /\ Len(OrMembers(query.where.AND[1])) = 2

-----------------------------------------------------------------------------
(* Ordering *)

\* the direction the request asks for
Direction == IF filter.orderRule = Undefined THEN Asc ELSE filter.orderRule

\* C15: Ordering.  With an orderKey, orderBy is the orderKey path folded around
\* the direction, orderRule if given and 'asc' otherwise; without an orderKey,
\* orderBy is the empty mapping whatever orderRule is.  An orderKey is a
\* non-empty field-path.
C15_Ordering ==
    Built =>
        /\ filter.orderKey = Undefined => query.orderBy = EmptyObj
        /\ (filter.orderKey # Undefined /\ filter.orderKey.s # <<>>) =>
               IsFolded(query.orderBy, filter.orderKey.s, Direction)

\* built: a dotted orderKey sorted 'desc'
C15_Witness ==
    /\ Built
    /\ filter.orderKey # Undefined
    /\ IncludesDot(filter.orderKey.s)
    /\ Len(filter.orderKey.s) = MaxPathLen
    /\ filter.orderRule = Desc
    /\ query.orderBy # EmptyObj

-----------------------------------------------------------------------------
(* Validation runs every check *)

\* one request per entry of a Record, holding that entry alone at the site
EntriesAlone(rec, site) ==
    IF rec = Undefined THEN <<>>
    ELSE [i \in 1..Len(rec.entries) |->
             IF site = "filters"
             THEN [EmptyRequest EXCEPT !.filters = Rec(<<rec.entries[i]>>)]
             ELSE [EmptyRequest EXCEPT !.searchFilters = Rec(<<rec.entries[i]>>)]]

RangesAlone(f) ==
    [i \in 1..Len(RangesOf(f)) |->
        [EmptyRequest EXCEPT !.rangedFilters = Arr(<<RangesOf(f)[i]>>)]]

\* the request taken apart: each filters entry, each searchFilters entry, each
\* range, the orderKey, and the pagination, every one in a request of its own
PartsAlone(f) ==
    EntriesAlone(f.filters, "filters") \o EntriesAlone(f.searchFilters, "searchFilters")
        \o RangesAlone(f)
        \o <<[EmptyRequest EXCEPT !.orderKey = f.orderKey],
             [EmptyRequest EXCEPT !.page = f.page, !.rows = f.rows]>>

RECURSIVE DiagsAlone(_, _, _)
\* the diagnostics of the requests reqs[i..], each validated alone, concatenated
DiagsAlone(reqs, spec, i) ==
    IF i > Len(reqs) THEN NoDiag
    ELSE LET r == validateQuery(reqs[i], spec)
         IN  Then([errors |-> r.errors, warnings |-> r.warnings], DiagsAlone(reqs, spec, i + 1))

\* C16: Validation is not short-circuited.  Under a specification the errors
\* and warnings of a request are exactly those its filters, searchFilters,
\* rangedFilters, orderKey and pagination produce when validated alone, field
\* by field, concatenated in that order.
C16_NoShortCircuit ==
    (Validated /\ HasSpec) =>
        LET d == DiagsAlone(PartsAlone(filter), specification, 1)
        IN  /\ result.errors = d.errors
            /\ result.warnings = d.warnings

\* validated: errors from the filters, a range, the orderKey and the pagination
\* of one request, and a warning as well
C16_Witness ==
    /\ Validated
    /\ HasSpec
    /\ Len(PartsAlone(filter)) >= 6
    /\ \E i, j \in 1..Len(PartsAlone(filter)) :
          /\ i < j
          /\ j < Len(PartsAlone(filter))
          /\ Len(validateQuery(PartsAlone(filter)[i], specification).errors) > 0
          /\ Len(validateQuery(PartsAlone(filter)[j], specification).errors) > 0
    /\ Len(validateQuery([EmptyRequest EXCEPT !.page = filter.page, !.rows = filter.rows],
                         specification).errors) = 2
    /\ Len(result.errors) >= 5
    /\ Len(result.warnings) >= 1

-----------------------------------------------------------------------------
(* Validated requests and the traversals they build *)

\* v is what a terminal segment maps to: a scalar, or a search or range leaf
IsTerminalValue(v) ==
    \/ v.t # "object"
    \/ DOMAIN v.props = {KeyContains, KeyMode}
    \/ DOMAIN v.props = {KeyGte, KeyLte}

RECURSIVE WrapperKeys(_)
\* the keys of the output v that map to a further nested mapping: the
\* non-terminal segments, those inside OR-groups included
WrapperKeys(v) ==
    IF v.t = "array" THEN UNION {WrapperKeys(v.items[i]) : i \in 1..Len(v.items)}
    ELSE IF v.t # "object" \/ IsTerminalValue(v) THEN {}
    ELSE UNION {IF k = KeyOR /\ v.props[k].t = "array" THEN WrapperKeys(v.props[k])
                ELSE IF IsTerminalValue(v.props[k]) THEN {}
                ELSE {k} \cup WrapperKeys(v.props[k]) : k \in DOMAIN v.props}

\* C17: Validated requests build only allowed traversals.  When validateQuery
\* reports no errors under a specification that configures allowedRelations,
\* every wrapper key of the built where and orderBy is in allowedRelations.
C17_AllowedTraversals ==
    (Built /\ Validated /\ HasSpec /\ specification.allowedRelations # Undefined
        /\ Len(result.errors) = 0) =>
        WrapperKeys(Arr(query.where.AND)) \cup WrapperKeys(query.orderBy)
            \subseteq Listed(specification.allowedRelations)

\* built and validated without errors: a list-valued filter and a search on a
\* path through both allowed relations, the conditions inside OR-groups
C17_Witness ==
    /\ Built
    /\ Validated
    /\ HasSpec
    /\ specification.allowedRelations = Arr(<<Str(<<"a">>), Str(<<"b">>)>>)
    /\ Len(result.errors) = 0
    /\ Len(query.where.AND) = 2
    /\ IsOrGroup(query.where.AND[1])
    /\ IsOrGroup(query.where.AND[2])
    /\ WrapperKeys(Arr(query.where.AND)) = {<<"a">>, <<"b">>}

-----------------------------------------------------------------------------
(* Validated requests and the pagination they build *)

IsPaginationError(msg) ==
    msg \in {PageMessage, RowsMessage} \/ BeginsWith(msg, ExceedPrefix)

\* C18: Validated requests give sane pagination.  When validateQuery reports
\* no pagination error under a specification, the built query has skip >= 0
\* and take >= 1, and take is rows or 10.
C18_SanePagination ==
    (Built /\ Validated /\ HasSpec
        /\ \A i \in 1..Len(result.errors) : ~IsPaginationError(result.errors[i])) =>
        /\ query.skip.n >= 0
        /\ query.take.n >= 1
        /\ query.take \in {filter.rows, Num(10)}

\* built and validated without errors: page 2 of 3 rows under maxPageSize 3
C18_Witness ==
    /\ Built
    /\ Validated
    /\ HasSpec
    /\ specification.maxPageSize = Num(3)
    /\ filter.page = Num(2)
    /\ filter.rows = Num(3)
    /\ Len(result.errors) = 0
    /\ query.skip = Num(3)
    /\ query.take = Num(3)

-----------------------------------------------------------------------------
(* forbiddenFields behind the allow-list *)

EndsWith(msg, suffix) ==
    Len(msg) >= Len(suffix) /\ SubSeq(msg, Len(msg) - Len(suffix) + 1, Len(msg)) = suffix

IsForbiddenError(msg) == BeginsWith(msg, FieldPrefix) /\ EndsWith(msg, ForbiddenSuffix)

\* the allow-list warnings and the forbidden error that can name the field f
FieldDiagnostics(f) ==
    {ForbiddenMsg(f)} \cup
    {NotInListMsg(prefix, f) :
        prefix \in {FieldPrefix, SearchFieldPrefix, RangeFieldPrefix, OrderFieldPrefix}}

\* C19: forbiddenFields is only consulted behind the allow-list.  Without
\* allowedFields there is no field warning and no "is forbidden" error,
\* whatever forbiddenFields lists; and a field in both allowedFields and
\* forbiddenFields produces no field diagnostic.
C19_ForbiddenBehindAllowList ==
    (Validated /\ HasSpec) =>
        /\ specification.allowedFields = Undefined =>
              /\ result.warnings = <<>>
              /\ \A i \in 1..Len(result.errors) : ~IsForbiddenError(result.errors[i])
        /\ \A f \in Listed(specification.allowedFields) \cap Listed(specification.forbiddenFields) :
              \A d \in FieldDiagnostics(f) :
                  Count(result.errors, d) = 0 /\ Count(result.warnings, d) = 0

\* validated without allowedFields: both fields forbidden and both used, one of
\* them in filters, and nothing reported
C19_Witness ==
    /\ Validated
    /\ HasSpec
    /\ specification.allowedFields = Undefined
    /\ specification.allowedRelations = Undefined
    /\ Listed(specification.forbiddenFields) = FieldKeys
    /\ KeysOf(Present(filter.filters)) = {<<"a">>}
    /\ KeysOf(Present(filter.searchFilters)) = {<<"a", Dot, "b">>}
    /\ Truthy(filter.orderKey)
    /\ result.isValid = TRUE
    /\ result.errors = <<>>
    /\ result.warnings = <<>>

====
